---- MODULE Spec2Model ----
(***************************************************************************)
(* Model of pyhdb/cursor.py: the statement-execution dispatcher (execute,  *)
(* executemany, prepare, execute_prepared, _execute_direct), the row       *)
(* parameter binder (PreparedStatement) and the buffered fetch engine      *)
(* (fetchmany, fetchone, fetchall) of a database cursor.                   *)
(*                                                                         *)
(* The server and the transport are the environment: every response a      *)
(* request can get is a nondeterministic choice of the action that sends   *)
(* the request.  A call that makes several round trips (executemany,       *)
(* execute_prepared, fetchall) is one action per round trip, sequenced by  *)
(* pc; no other call starts while pc is not "idle" (the cursor is driven   *)
(* by a single synchronous caller).                                        *)
(***************************************************************************)
EXTENDS Integers, Sequences, FiniteSets, TLC

VARIABLES cursor, server, pc, frame, call, sent, recv, outcome, delivered,
          stmt, trail

vars == <<cursor, server, pc, frame, call, sent, recv, outcome, delivered,
          stmt, trail>>

cursorVars == <<cursor, server, pc, frame, call, sent, recv, outcome, delivered>>

binderVars == <<stmt, trail>>

(***************************************************************************)
(* Bounds of the model.                                                    *)
(***************************************************************************)
\* longest parameter batch handed to executemany / prepare_parameters
MaxBatch == 2
\* most rows of a result set
MaxRows == 3
\* largest size argument of fetchmany and largest arraysize
MaxSize == 3
\* deepest lookahead stack driven through push_back directly
MaxPushed == 2
\* the affected-row counts the server reports for one parameter row
AffectedCounts == {0, 1}
\* the largest result set of the server that cuts it into chunks
MaxTotal == 7
\* the largest result set of a select followed by a data modification
MaxHeld == 1

Min(a, b) == IF a < b THEN a ELSE b

Max(a, b) == IF a > b THEN a ELSE b

(***************************************************************************)
(* Statements are token sequences: "?" is a server-side parameter marker,  *)
(* "%s" a printf-style placeholder.  Parameter rows are sequences of       *)
(* values.                                                                 *)
(***************************************************************************)
Values == {"a", "b"}

\* every statement text of the model; a statement's identifier on the server
\* is its place in this list
AllStatements ==
    << <<"INSERT", "?">>, <<"INSERT", "%s">>, <<"SELECT">>, <<"SELECT", "?">> >>

\* the data-modification statements the dispatcher specification executes
Statements == { <<"INSERT", "?">>, <<"INSERT", "%s">> }

ParamRows == { <<"a">>, <<"b">>, <<"a", "b">> }

RECURSIVE SeqsUpTo(_, _)
SeqsUpTo(S, n) ==
    IF n = 0 THEN { <<>> }
    ELSE LET shorter == SeqsUpTo(S, n - 1)
         IN  shorter \cup { Append(q, x) : q \in shorter, x \in S }

Batches == SeqsUpTo(ParamRows, MaxBatch)

RECURSIVE CountToken(_, _)
CountToken(tokens, t) ==
    IF tokens = <<>> THEN 0
    ELSE (IF Head(tokens) = t THEN 1 ELSE 0) + CountToken(Tail(tokens), t)

\* the statement identifier the server assigns to a statement text
StatementIdOf(statement) ==
    CHOOSE i \in 1..Len(AllStatements) : AllStatements[i] = statement

\* the function code of the server's response: the statement's verb decides
FunctionCodeOf(operation) ==
    CASE Head(operation) = "SELECT" -> "SELECT"
      [] Head(operation) = "INSERT" -> "INSERT"
      [] Head(operation) = "CREATE" -> "DDL"
      [] OTHER                      -> "DBPROCEDURECALL"

(***************************************************************************)
(* format_operation: printf-style substitution of a row into a statement.  *)
(***************************************************************************)
\* escape_values: a value becomes its quoted SQL literal
escape_values(v) == IF v = "a" THEN "'a'" ELSE "'b'"

NotEnoughArguments == "not enough arguments for format string"

NotAllConverted == "not all arguments converted during string formatting"

FORMAT_OPERATION_ERRORS == { NotEnoughArguments, NotAllConverted }

\* Python's  operation % e_values : each "%s" consumes the next value
RECURSIVE percent_format(_, _)
percent_format(operation, e_values) ==
    IF operation = <<>>
    THEN [error |-> IF e_values = <<>> THEN "" ELSE NotAllConverted,
          operation |-> <<>>]
    ELSE IF Head(operation) = "%s"
    THEN IF e_values = <<>>
         THEN [error |-> NotEnoughArguments, operation |-> <<>>]
         ELSE LET rest == percent_format(Tail(operation), Tail(e_values))
              IN  [error |-> rest.error,
                   operation |-> <<Head(e_values)>> \o rest.operation]
    ELSE LET rest == percent_format(Tail(operation), e_values)
         IN  [error |-> rest.error,
              operation |-> <<Head(operation)>> \o rest.operation]

\* format_operation that returns the statement text as it came
format_operation_unsubstituted(operation, parameters) ==
    [error |-> "", message |-> <<>>, operation |-> operation]

\* format_operation(operation, parameters) for a row (parameters is not None);
\* a formatting TypeError of FORMAT_OPERATION_ERRORS becomes a ProgrammingError
format_operation(operation, parameters) ==
    LET e_values == [i \in 1..Len(parameters) |-> escape_values(parameters[i])]
        formatted == percent_format(operation, e_values)
    IN  IF formatted.error = ""
        THEN [error |-> "", message |-> <<>>, operation |-> formatted.operation]
        ELSE IF formatted.error \in FORMAT_OPERATION_ERRORS
        THEN [error |-> "ProgrammingError", message |-> <<formatted.error>>,
              operation |-> operation]
        ELSE [error |-> "TypeError", message |-> <<formatted.error>>,
              operation |-> operation]

(***************************************************************************)
(* PreparedStatement: the row parameter binder.                            *)
(***************************************************************************)
\* params_metadata of a statement with n parameters: ids 0 .. n-1
ParamsMetadata(n) == [i \in 1..n |-> [id |-> i - 1]]

\* PreparedStatement.__init__
PreparedStatement(statement_id, params_metadata, result_metadata_part) ==
    [statement_id |-> statement_id,
     params_metadata |-> params_metadata,
     result_metadata_part |-> result_metadata_part,
     pushed_row_params |-> <<>>,
     has_multi_row_parameters |-> FALSE,
     multi_row_parameters |-> <<>>,
     end_of_data |-> FALSE]

\* PreparedStatement.prepare_parameters
prepare_parameters(ps, multi_row_parameters) ==
    [ps EXCEPT !.end_of_data = FALSE,
               !.has_multi_row_parameters = TRUE,
               !.multi_row_parameters = multi_row_parameters]

\* PreparedStatement.__nonzero__
nonzero(ps) == ~ ps.end_of_data

\* one ParamTuple per declared parameter, the value taken at the declared id
ParamTuples(params_metadata, parameters) ==
    [i \in 1..Len(params_metadata) |->
        [id |-> params_metadata[i].id,
         value |-> parameters[params_metadata[i].id + 1]]]

NoRow == <<>>

\* PreparedStatement.next without the check of the row's length
next_unchecked(ps) ==
    IF ps.end_of_data
    THEN [ps |-> ps, kind |-> "StopIteration", row |-> NoRow]
    ELSE IF ps.pushed_row_params # <<>>
    THEN [ps |-> [ps EXCEPT !.pushed_row_params =
                        SubSeq(ps.pushed_row_params, 1,
                               Len(ps.pushed_row_params) - 1)],
          kind |-> "row",
          row |-> ps.pushed_row_params[Len(ps.pushed_row_params)]]
    ELSE IF ps.multi_row_parameters = <<>>
    THEN [ps |-> [ps EXCEPT !.end_of_data = TRUE],
          kind |-> "StopIteration", row |-> NoRow]
    ELSE [ps |-> [ps EXCEPT !.multi_row_parameters =
                                Tail(ps.multi_row_parameters)],
          kind |-> "row",
          row |-> ParamTuples(ps.params_metadata, Head(ps.multi_row_parameters))]

\* PreparedStatement.next: the binder's state after the call, how the call
\* ended ("row", "StopIteration", "ProgrammingError", "AttributeError") and
\* the row it returned
next(ps) ==
    IF ps.end_of_data
    THEN [ps |-> ps, kind |-> "StopIteration", row |-> NoRow]
    ELSE IF ps.pushed_row_params # <<>>
    THEN [ps |-> [ps EXCEPT !.pushed_row_params =
                        SubSeq(ps.pushed_row_params, 1,
                               Len(ps.pushed_row_params) - 1)],
          kind |-> "row",
          row |-> ps.pushed_row_params[Len(ps.pushed_row_params)]]
    ELSE IF ~ ps.has_multi_row_parameters
    THEN [ps |-> ps, kind |-> "AttributeError", row |-> NoRow]
    ELSE IF ps.multi_row_parameters = <<>>
    THEN [ps |-> [ps EXCEPT !.end_of_data = TRUE],
          kind |-> "StopIteration", row |-> NoRow]
    ELSE LET parameters == Head(ps.multi_row_parameters)
             advanced == [ps EXCEPT !.multi_row_parameters =
                                        Tail(ps.multi_row_parameters)]
         IN  IF Len(parameters) # Len(ps.params_metadata)
             THEN [ps |-> advanced, kind |-> "ProgrammingError", row |-> NoRow]
             ELSE [ps |-> advanced, kind |-> "row",
                   row |-> ParamTuples(ps.params_metadata, parameters)]

\* push_back that forgets the row
push_back_drops(ps, row_params) == ps

\* PreparedStatement.push_back
push_back(ps, row_params) ==
    [ps EXCEPT !.pushed_row_params = Append(ps.pushed_row_params, row_params)]

(***************************************************************************)
(* Protocol parts, responses and requests.  A message text is a sequence   *)
(* of fragments; "x in str(msg)" is the presence of the fragment x.        *)
(***************************************************************************)
Part(kind) ==
    [kind |-> kind, value |-> 0, statement_id |-> 0, values |-> <<>>,
     rows |-> <<>>, attribute |-> 0, columns |-> ""]

Request(type) ==
    [type |-> type, command |-> <<>>, statement_id |-> 0, parameters |-> <<>>,
     resultset_id |-> 0, fetch_size |-> 0]

\* total is the server's own count of the rows of a result set it opens
Response(function_code, parts) ==
    [error |-> <<>>, function_code |-> function_code, parts |-> parts,
     total |-> -1]

ServerError(message) ==
    [error |-> message, function_code |-> "", parts |-> <<>>, total |-> -1]

PercentSignature == "incorrect syntax near \"%\""

PercentSyntaxError == <<"sql syntax error:", PercentSignature, ": line 1">>

OtherServerError == <<"invalid table name">>

Contains(message, fragment) == \E i \in 1..Len(message) : message[i] = fragment

\* function_codes.DML
DML == {"INSERT", "UPDATE", "DELETE"}

\* pyhdb.exceptions: ProgrammingError is a DatabaseError, InterfaceError is not
IsDatabaseError(error) == error \in {"DatabaseError", "ProgrammingError"}

CursorClosed == <<"Cursor closed">>

(***************************************************************************)
(* Cursor.                                                                 *)
(***************************************************************************)
\* Cursor.__init__ ; resultset_id 0: the attribute _resultset_id is not set
NewCursor ==
    [connection |-> "open",
     buffer |-> <<>>,
     received_last_resultset_part |-> FALSE,
     executed |-> FALSE,
     rowcount |-> -1,
     description |-> "None",
     arraysize |-> 1,
     resultset_id |-> 0,
     prepared_statements |-> <<>>]

\* _check_closed that tests only for the missing connection
check_closed_missing_only(c) == c.connection = "None"

\* Cursor._check_closed: TRUE when it raises ProgrammingError("Cursor closed")
check_closed(c) == c.connection = "None" \/ c.connection = "closed"

\* Cursor.get_prepared_statement
get_prepared_statement(c, statement_id) == c.prepared_statements[statement_id]

\* self._prepared_statements[statement_id] = PreparedStatement(...)
CacheStatement(c, ps) ==
    [c EXCEPT !.prepared_statements =
        [i \in (DOMAIN c.prepared_statements) \cup {ps.statement_id} |->
            IF i = ps.statement_id THEN ps ELSE c.prepared_statements[i]]]

UpdateStatement(c, ps) ==
    [c EXCEPT !.prepared_statements[ps.statement_id] = ps]

\* the loop over response.segments[0].parts in Cursor.prepare
RECURSIVE prepare_parts(_, _)
prepare_parts(parts, found) ==
    IF parts = <<>> THEN found
    ELSE LET part == Head(parts)
         IN  prepare_parts(Tail(parts),
                CASE part.kind = "STATEMENTID" ->
                        [found EXCEPT !.statement_id = part.statement_id]
                  [] part.kind = "PARAMETERMETADATA" ->
                        [found EXCEPT !.has_params_metadata = TRUE,
                                      !.params_metadata = part.values]
                  [] part.kind = "RESULTSETMETADATA" ->
                        [found EXCEPT !.result_metadata_part = part.columns]
                  [] OTHER -> found)

\* Cursor.prepare once the request is answered by response: a server error
\* is raised by send_request; the two assertions guard the cache update
prepare(c, response) ==
    IF response.error # <<>>
    THEN [cursor |-> c, error |-> "DatabaseError", message |-> response.error,
          statement_id |-> 0]
    ELSE LET found == prepare_parts(response.parts,
                        [statement_id |-> 0, has_params_metadata |-> FALSE,
                         params_metadata |-> <<>>,
                         result_metadata_part |-> "None"])
         IN  IF found.statement_id = 0 \/ ~ found.has_params_metadata
             THEN [cursor |-> c, error |-> "AssertionError", message |-> <<>>,
                   statement_id |-> 0]
             ELSE [cursor |-> CacheStatement(c,
                        PreparedStatement(found.statement_id,
                                          found.params_metadata,
                                          found.result_metadata_part)),
                   error |-> "", message |-> <<>>,
                   statement_id |-> found.statement_id]

\* Cursor._handle_result_metadata: the column types resolve, or one of them
\* is not in by_type_code, or there is no metadata part to read
handle_result_metadata(result_metadata) ==
    CASE result_metadata = "None"    -> [error |-> "AttributeError"]
      [] result_metadata = "badtype" -> [error |-> "InterfaceError"]
      [] OTHER                       -> [error |-> ""]

\* the loop over parts in Cursor._handle_prepared_select
RECURSIVE prepared_select_parts(_, _)
prepared_select_parts(c, parts) ==
    IF parts = <<>> THEN [cursor |-> c, error |-> ""]
    ELSE LET part == Head(parts)
         IN  CASE part.kind = "RESULTSETID" ->
                    prepared_select_parts([c EXCEPT !.resultset_id = part.value],
                                          Tail(parts))
               [] part.kind = "RESULTSET" ->
                    prepared_select_parts(
                        [c EXCEPT !.buffer = part.rows,
                                  !.received_last_resultset_part =
                                        (part.attribute % 2 = 1),
                                  !.executed = TRUE],
                        Tail(parts))
               [] part.kind = "STATEMENTCONTEXT" ->
                    prepared_select_parts(c, Tail(parts))
               [] OTHER -> [cursor |-> c, error |-> "InterfaceError"]

\* Cursor._handle_prepared_select
handle_prepared_select(c, parts, result_metadata) ==
    LET reset == [c EXCEPT !.rowcount = -1]
        metadata == handle_result_metadata(result_metadata)
    IN  IF metadata.error # ""
        THEN [cursor |-> reset, error |-> metadata.error]
        ELSE prepared_select_parts([reset EXCEPT !.description = "described"],
                                   parts)

\* the loop over parts in Cursor._handle_prepared_insert
RECURSIVE prepared_insert_parts(_, _)
prepared_insert_parts(c, parts) ==
    IF parts = <<>> THEN [cursor |-> c, error |-> ""]
    ELSE LET part == Head(parts)
         IN  CASE part.kind = "ROWSAFFECTED" ->
                    prepared_insert_parts([c EXCEPT !.rowcount = part.values[1]],
                                          Tail(parts))
               [] part.kind \in {"TRANSACTIONFLAGS", "STATEMENTCONTEXT"} ->
                    prepared_insert_parts(c, Tail(parts))
               [] OTHER -> [cursor |-> c, error |-> "InterfaceError"]

\* Cursor._handle_prepared_insert
handle_prepared_insert(c, parts) ==
    LET done == prepared_insert_parts(c, parts)
    IN  IF done.error # "" THEN done
        ELSE [cursor |-> [done.cursor EXCEPT !.executed = TRUE], error |-> ""]

\* Cursor._handle_select: parts is (metadata, resultset id, context, result set)
handle_select(c, parts) ==
    LET reset == [c EXCEPT !.rowcount = -1]
        metadata == handle_result_metadata(parts[1].columns)
    IN  IF metadata.error # ""
        THEN [cursor |-> reset, error |-> metadata.error]
        ELSE [cursor |-> [reset EXCEPT
                            !.description = "described",
                            !.resultset_id = parts[2].value,
                            !.buffer = parts[4].rows,
                            !.received_last_resultset_part =
                                (parts[4].attribute % 2 = 1),
                            !.executed = TRUE],
              error |-> ""]

\* Cursor._handle_insert
handle_insert(c, parts) ==
    [cursor |-> [c EXCEPT !.rowcount = parts[1].values[1],
                          !.description = "None"],
     error |-> ""]

InvalidFunctionCode == <<"Invalid or unsupported function code received">>

Raised(done) ==
    [cursor |-> done.cursor, error |-> done.error,
     message |-> IF done.error = "" THEN <<>> ELSE <<done.error>>]

\* Cursor._execute_direct once the request is answered by response
execute_direct(c, response) ==
    IF response.error # <<>>
    THEN [cursor |-> c, error |-> "DatabaseError", message |-> response.error]
    ELSE CASE response.function_code = "SELECT" ->
                Raised(handle_select(c, response.parts))
           [] response.function_code \in DML ->
                Raised(handle_insert(c, response.parts))
           [] response.function_code = "DDL" ->
                [cursor |-> c, error |-> "", message |-> <<>>]
           [] OTHER ->
                [cursor |-> c, error |-> "InterfaceError",
                 message |-> InvalidFunctionCode]

\* the dispatch on the function code in Cursor.execute_prepared
prepared_response(c, prepared_statement, response) ==
    IF response.error # <<>>
    THEN [cursor |-> c, error |-> "DatabaseError", message |-> response.error]
    ELSE CASE response.function_code = "SELECT" ->
                Raised(handle_prepared_select(c, response.parts,
                            prepared_statement.result_metadata_part))
           [] response.function_code \in DML ->
                Raised(handle_prepared_insert(c, response.parts))
           [] response.function_code = "DDL" ->
                [cursor |-> c, error |-> "", message |-> <<>>]
           [] OTHER ->
                [cursor |-> c, error |-> "InterfaceError",
                 message |-> InvalidFunctionCode]

(***************************************************************************)
(* The server.  server is the result set the cursor's _resultset_id names: *)
(* its row count and how many of its rows have been sent.  The rows of a   *)
(* result set are 1 .. total.  A chunk carries at least one row while rows *)
(* remain, and the final-chunk bit only on a chunk after which none remain.*)
(***************************************************************************)
RowsFrom(first, count) == [i \in 1..count |-> first + i - 1]

\* an identifier the cursor does not hold yet
FreshResultSetId(c) == IF c.resultset_id = 1 THEN 2 ELSE 1

SelectChunks(maxTotal) ==
    { ch \in [total : 0..maxTotal, count : 0..maxTotal, last : BOOLEAN] :
        /\ ch.count <= ch.total
        /\ ch.total > 0 => ch.count > 0
        /\ ch.last => ch.count = ch.total }

ResultSetPart(first, count, last) ==
    [Part("RESULTSET") EXCEPT !.rows = RowsFrom(first, count),
                              !.attribute = IF last THEN 1 ELSE 0]

ResultSetIdPart(id) == [Part("RESULTSETID") EXCEPT !.value = id]

MetadataPart(columns) == [Part("RESULTSETMETADATA") EXCEPT !.columns = columns]

RowsAffectedPart(values) == [Part("ROWSAFFECTED") EXCEPT !.values = values]

\* what the server can answer to the execution of operation with rows
\* parameter rows (1 for a direct execute): a response of the statement's
\* function code, or an error; withMetadata: the response carries the result
\* set's metadata (a direct execute), badShape: the response may also carry a
\* part of a kind the cursor does not expect (a prepared execute)
ExecuteReplies(operation, id, maxTotal, rows, withMetadata, badShape) ==
    LET code == FunctionCodeOf(operation)
        extra == IF badShape THEN {"", "OUTPUTPARAMETERS"} ELSE {""}
        With(parts, kind) == IF kind = "" THEN parts ELSE Append(parts, Part(kind))
    IN  { ServerError(OtherServerError) }
        \cup
        ( CASE code = "SELECT" ->
                 { [Response("SELECT",
                        With((IF withMetadata THEN <<MetadataPart(columns)>>
                              ELSE <<>>)
                             \o <<ResultSetIdPart(id), Part("STATEMENTCONTEXT"),
                                  ResultSetPart(1, ch.count, ch.last)>>, kind))
                     EXCEPT !.total = ch.total] :
                    ch \in SelectChunks(maxTotal),
                    columns \in (IF withMetadata THEN {"ok", "badtype"} ELSE {"ok"}),
                    kind \in extra }
            [] code = "INSERT" ->
                 { Response("INSERT",
                        With(<<RowsAffectedPart([i \in 1..rows |-> a])>>, kind)) :
                    a \in AffectedCounts, kind \in extra }
            [] OTHER -> { Response(code, <<>>) } )

\* what the server can answer to a direct execute of operation
DirectReplies(operation, id, maxTotal) ==
    ExecuteReplies(operation, id, maxTotal, 1, TRUE, FALSE)

\* what the server can answer to a prepared execute of the statement
\* statement_id carrying rows parameter rows: a request without rows is
\* rejected
PreparedReplies(statement_id, id, maxTotal, rows) ==
    IF rows = 0 THEN { ServerError(OtherServerError) }
    ELSE ExecuteReplies(AllStatements[statement_id], id, maxTotal, rows,
                        FALSE, TRUE)

\* what the server can answer to a prepare of statement: a statement with a
\* printf-style placeholder is rejected, with the percent-sign syntax error
\* or with another one; any other statement is prepared or rejected, and a
\* response may lack a part
PrepareReplies(statement) ==
    LET id == [Part("STATEMENTID") EXCEPT !.statement_id = StatementIdOf(statement)]
        pm == [Part("PARAMETERMETADATA") EXCEPT
                    !.values = ParamsMetadata(CountToken(statement, "?"))]
        prepared == IF FunctionCodeOf(statement) = "SELECT"
                    THEN { Response("", <<id, MetadataPart(columns), pm>>) :
                            columns \in {"ok", "badtype"} }
                    ELSE { Response("", <<id, pm>>) }
    IN  IF CountToken(statement, "%s") > 0
        THEN { ServerError(PercentSyntaxError), ServerError(OtherServerError) }
        ELSE prepared \cup { Response("", <<pm>>), Response("", <<id>>),
                             ServerError(OtherServerError) }

\* what the server can answer to a fetch of fetch_size more rows
FetchReplies(srv, fetch_size) ==
    LET remaining == srv.total - srv.position
    IN  IF remaining = 0 THEN { [count |-> 0, last |-> TRUE] }
        ELSE IF fetch_size <= 0 THEN { [count |-> 0, last |-> FALSE] }
        ELSE { r \in [count : 1..Min(fetch_size, remaining), last : BOOLEAN] :
                 r.last => r.count = remaining }

FetchResponse(srv, id, reply) ==
    Response("SELECT", <<ResultSetIdPart(id),
                         ResultSetPart(srv.position + 1, reply.count, reply.last)>>)

\* a response made the cursor adopt a new result set
Adopted(before, after) == after.resultset_id # before.resultset_id

ServerAfter(srv, before, after, response) ==
    IF Adopted(before, after)
    THEN [total |-> response.total,
          position |-> Len(after.buffer)]
    ELSE srv

(***************************************************************************)
(* The request builder (the Parameters part of an EXECUTE request) pulls   *)
(* rows from the binder until the binder ends or a row does not fit; the   *)
(* row that does not fit is pushed back for the next request.  fit is the  *)
(* number of rows the request has room for.                                *)
(***************************************************************************)
RECURSIVE pack_rows(_, _, _)
pack_rows(ps, fit, packed) ==
    LET pulled == next(ps)
    IN  CASE pulled.kind = "row" ->
                IF Len(packed) = fit
                THEN [ps |-> push_back(pulled.ps, pulled.row), error |-> "",
                      rows |-> packed]
                ELSE pack_rows(pulled.ps, fit, Append(packed, pulled.row))
          [] pulled.kind = "StopIteration" ->
                [ps |-> pulled.ps, error |-> "", rows |-> packed]
          [] OTHER ->
                [ps |-> pulled.ps, error |-> pulled.kind, rows |-> <<>>]

(***************************************************************************)
(* Calls on the cursor.  call is the call being made or made last, with    *)
(* whether the cursor was closed when it started; sent and recv are the    *)
(* requests it sent and the responses it got; outcome is how it ended;     *)
(* delivered is every row the fetch calls returned since the cursor last   *)
(* adopted a result set.                                                   *)
(***************************************************************************)
Returned(value) == [error |-> "", message |-> <<>>, value |-> value]

Raises(error, message) == [error |-> error, message |-> message, value |-> <<>>]

Pending == [error |-> "pending", message |-> <<>>, value |-> <<>>]

Ended(done, value) ==
    IF done.error = "" THEN Returned(value) ELSE Raises(done.error, done.message)

NoFrame == [statement |-> <<>>, rows |-> <<>>, statement_id |-> 0, result |-> <<>>]

Call(op) ==
    [op |-> op, statement |-> <<>>, parameters |-> <<>>, size_given |-> FALSE,
     size |-> 0, closed |-> check_closed(cursor)]

PrepareRequest(statement) == [Request("PREPARE") EXCEPT !.command = statement]

ExecuteRequest(statement_id, rows) ==
    [Request("EXECUTE") EXCEPT !.statement_id = statement_id, !.parameters = rows]

DirectRequest(operation) == [Request("EXECUTEDIRECT") EXCEPT !.command = operation]

FetchRequest(resultset_id, missing) ==
    [Request("FETCHNEXT") EXCEPT !.resultset_id = resultset_id,
                                 !.fetch_size = missing]

\* the call returns or raises
Finish(c, srv, out, snt, rcv, dlv) ==
    /\ cursor' = c
    /\ server' = srv
    /\ pc' = "idle"
    /\ frame' = NoFrame
    /\ outcome' = out
    /\ sent' = snt
    /\ recv' = rcv
    /\ delivered' = dlv

\* the call goes on with its next round trip
Continue(c, srv, label, fr, snt, rcv, dlv) ==
    /\ cursor' = c
    /\ server' = srv
    /\ pc' = label
    /\ frame' = fr
    /\ outcome' = Pending
    /\ sent' = snt
    /\ recv' = rcv
    /\ delivered' = dlv

DeliveredAfter(before, after) == IF Adopted(before, after) THEN <<>> ELSE delivered

\* _check_closed raising at the start of a call
ClosedCall ==
    Finish(cursor, server, Raises("ProgrammingError", CursorClosed), <<>>, <<>>,
           delivered)

\* _execute_direct(operation) as the whole of a call
DirectCall(operation, maxTotal) ==
    \E response \in DirectReplies(operation, FreshResultSetId(cursor), maxTotal) :
        LET done == execute_direct(cursor, response)
        IN  Finish(done.cursor,
                   ServerAfter(server, cursor, done.cursor, response),
                   Ended(done, <<>>),
                   <<DirectRequest(operation)>>, <<response>>,
                   DeliveredAfter(cursor, done.cursor))

\* self.prepare(statement): _check_closed, then the PREPARE round trip
PrepareAttempts(statement) ==
    IF check_closed(cursor)
    THEN { [cursor |-> cursor, error |-> "ProgrammingError",
            message |-> CursorClosed, statement_id |-> 0,
            sent |-> <<>>, recv |-> <<>>] }
    ELSE { [cursor |-> prepare(cursor, response).cursor,
            error |-> prepare(cursor, response).error,
            message |-> prepare(cursor, response).message,
            statement_id |-> prepare(cursor, response).statement_id,
            sent |-> <<PrepareRequest(statement)>>,
            recv |-> <<response>>] : response \in PrepareReplies(statement) }

\* an except clause that takes the fallback on every DatabaseError
TakesFallbackOnAnyError(error, message) == IsDatabaseError(error)

\* the except clause of executemany: a DatabaseError whose text has the
\* percent-sign signature is swallowed, every other is raised again
TakesFallback(error, message) ==
    IsDatabaseError(error) /\ Contains(message, PercentSignature)

\* execute_prepared up to its loop: _check_closed and prepare_parameters
BeginPrepared(c, statement_id, parameters, snt, rcv) ==
    IF check_closed(c)
    THEN Finish(c, server, Raises("ProgrammingError", CursorClosed), snt, rcv,
                delivered)
    ELSE Continue(UpdateStatement(c,
                    prepare_parameters(get_prepared_statement(c, statement_id),
                                       parameters)),
                  server, "prepared",
                  [NoFrame EXCEPT !.statement_id = statement_id],
                  snt, rcv, delivered)

\* executemany(statement, parameters) up to the first execute request
ExecuteManyBody(statement, parameters) ==
    \E p \in PrepareAttempts(statement) :
        IF p.error = ""
        THEN BeginPrepared(p.cursor, p.statement_id, parameters, p.sent, p.recv)
        ELSE IF TakesFallback(p.error, p.message)
        THEN Continue(p.cursor, server, "fallback",
                      [NoFrame EXCEPT !.statement = statement,
                                      !.rows = parameters],
                      p.sent, p.recv, delivered)
        ELSE Finish(p.cursor, server, Raises(p.error, p.message), p.sent, p.recv,
                    delivered)

ExecuteManyCore(statement, parameters) ==
    /\ pc = "idle"
    /\ ExecuteManyBody(statement, parameters)

\* Cursor.executemany
ExecuteMany(statement, parameters) ==
    /\ ExecuteManyCore(statement, parameters)
    /\ call' = [Call("executemany") EXCEPT !.statement = statement,
                                           !.parameters = parameters]
    /\ UNCHANGED binderVars

\* execute that prepares whatever the parameters are
ExecuteCoreAlwaysPrepares(statement, parameters, maxTotal) ==
    /\ pc = "idle"
    /\ IF check_closed(cursor) THEN ClosedCall
       ELSE ExecuteManyBody(statement, <<parameters>>)

\* execute that never looks at its parameters
ExecuteCoreAlwaysDirect(statement, parameters, maxTotal) ==
    /\ pc = "idle"
    /\ IF check_closed(cursor) THEN ClosedCall
       ELSE DirectCall(statement, maxTotal)

ExecuteCore(statement, parameters, maxTotal) ==
    /\ pc = "idle"
    /\ IF check_closed(cursor) THEN ClosedCall
       ELSE IF parameters = <<>> THEN DirectCall(statement, maxTotal)
       ELSE ExecuteManyBody(statement, <<parameters>>)

\* Cursor.execute; parameters <<>> stands for absent or empty parameters
Execute(statement, parameters, maxTotal) ==
    /\ ExecuteCore(statement, parameters, maxTotal)
    /\ call' = [Call("execute") EXCEPT
                    !.statement = statement,
                    !.parameters = IF parameters = <<>> THEN <<>>
                                   ELSE <<parameters>>]
    /\ UNCHANGED binderVars

\* Cursor.prepare called by the application
Prepare(statement) ==
    /\ pc = "idle"
    /\ \E p \in PrepareAttempts(statement) :
          Finish(p.cursor, server,
                 IF p.error = "" THEN Returned(<<p.statement_id>>)
                 ELSE Raises(p.error, p.message),
                 p.sent, p.recv, delivered)
    /\ call' = [Call("prepare") EXCEPT !.statement = statement]
    /\ UNCHANGED binderVars

\* Cursor.execute_prepared called by the application on a cached statement
ExecutePrepared(statement_id, parameters) ==
    /\ pc = "idle"
    /\ statement_id \in DOMAIN cursor.prepared_statements
    /\ BeginPrepared(cursor, statement_id, parameters, <<>>, <<>>)
    /\ call' = [Call("execute_prepared") EXCEPT !.parameters = parameters]
    /\ UNCHANGED binderVars

\* one turn of the loop "while parameters:" of execute_prepared
PreparedStep(maxTotal) ==
    /\ pc = "prepared"
    /\ LET ps == get_prepared_statement(cursor, frame.statement_id)
       IN  IF ~ nonzero(ps)
           THEN Finish(cursor, server, Returned(<<>>), sent, recv, delivered)
           ELSE \E fit \in 1..MaxBatch :
                LET built == pack_rows(ps, fit, <<>>)
                    bound == UpdateStatement(cursor, built.ps)
                    request == ExecuteRequest(ps.statement_id, built.rows)
                IN  IF built.error # ""
                    THEN Finish(bound, server,
                                Raises(built.error, <<built.error>>),
                                sent, recv, delivered)
                    ELSE \E response \in PreparedReplies(ps.statement_id,
                                                FreshResultSetId(cursor),
                                                maxTotal, Len(built.rows)) :
                         LET done == prepared_response(bound, built.ps, response)
                             srv == ServerAfter(server, cursor, done.cursor, response)
                             dlv == DeliveredAfter(cursor, done.cursor)
                         IN  IF done.error = ""
                             THEN Continue(done.cursor, srv, "prepared", frame,
                                           Append(sent, request),
                                           Append(recv, response), dlv)
                             ELSE Finish(done.cursor, srv,
                                         Raises(done.error, done.message),
                                         Append(sent, request),
                                         Append(recv, response), dlv)
    /\ UNCHANGED <<call, stmt, trail>>

\* one turn of the loop "for row_params in parameters:" of executemany
FallbackStep(maxTotal) ==
    /\ pc = "fallback"
    /\ IF frame.rows = <<>>
       THEN Finish(cursor, server, Returned(<<>>), sent, recv, delivered)
       ELSE LET formatted == format_operation(frame.statement, Head(frame.rows))
                request == DirectRequest(formatted.operation)
            IN  IF formatted.error # ""
                THEN Finish(cursor, server,
                            Raises(formatted.error, formatted.message),
                            sent, recv, delivered)
                ELSE \E response \in DirectReplies(formatted.operation,
                                                   FreshResultSetId(cursor),
                                                   maxTotal) :
                     LET done == execute_direct(cursor, response)
                         srv == ServerAfter(server, cursor, done.cursor, response)
                         dlv == DeliveredAfter(cursor, done.cursor)
                     IN  IF done.error = ""
                         THEN Continue(done.cursor, srv, "fallback",
                                       [frame EXCEPT !.rows = Tail(frame.rows)],
                                       Append(sent, request),
                                       Append(recv, response), dlv)
                         ELSE Finish(done.cursor, srv,
                                     Raises(done.error, done.message),
                                     Append(sent, request),
                                     Append(recv, response), dlv)
    /\ UNCHANGED <<call, stmt, trail>>

(***************************************************************************)
(* The fetch engine.                                                       *)
(***************************************************************************)
RequireExecute == <<"Require execute() first">>

\* the loop of fetchmany without "_missing -= 1"
take_buffered_keeps_missing(c, size) ==
    LET n == IF size > 0 THEN Min(size, Len(c.buffer)) ELSE 0
    IN  [cursor |-> [c EXCEPT !.buffer = SubSeq(c.buffer, n + 1, Len(c.buffer))],
         result |-> SubSeq(c.buffer, 1, n),
         missing |-> size]

\* the loop of fetchmany with pop() in place of popleft()
take_buffered_pop_right(c, size) ==
    LET n == IF size > 0 THEN Min(size, Len(c.buffer)) ELSE 0
    IN  [cursor |-> [c EXCEPT !.buffer = SubSeq(c.buffer, 1, Len(c.buffer) - n)],
         result |-> [i \in 1..n |-> c.buffer[Len(c.buffer) - i + 1]],
         missing |-> size - n]

\* the loop of fetchmany as an "if": one row at most
take_buffered_once(c, size) ==
    LET n == IF size > 0 THEN Min(1, Len(c.buffer)) ELSE 0
    IN  [cursor |-> [c EXCEPT !.buffer = SubSeq(c.buffer, n + 1, Len(c.buffer))],
         result |-> SubSeq(c.buffer, 1, n),
         missing |-> size - n]

\* the loop "while bool(self._buffer) and _missing > 0" of fetchmany
take_buffered(c, size) ==
    LET n == IF size > 0 THEN Min(size, Len(c.buffer)) ELSE 0
    IN  [cursor |-> [c EXCEPT !.buffer = SubSeq(c.buffer, n + 1, Len(c.buffer))],
         result |-> SubSeq(c.buffer, 1, n),
         missing |-> size - n]

\* the FETCHNEXT round trip of fetchmany: the flag is only ever set, the
\* rows of the response go to the result, not to the buffer
fetch_next(taken, srv, reply) ==
    LET request == FetchRequest(taken.cursor.resultset_id, taken.missing)
        response == FetchResponse(srv, taken.cursor.resultset_id, reply)
        resultset_part == response.parts[2]
    IN  [cursor |-> [taken.cursor EXCEPT !.received_last_resultset_part =
                        IF resultset_part.attribute % 2 = 1 THEN TRUE ELSE @],
         server |-> [srv EXCEPT !.position = @ + reply.count],
         error |-> "", message |-> <<>>,
         result |-> taken.result \o resultset_part.rows,
         sent |-> <<request>>, recv |-> <<response>>]

\* fetchmany that returns early only when no row is missing
fetchmany_ignores_last_part(c, srv, size_given, size_argument) ==
    IF check_closed(c)
    THEN { [cursor |-> c, server |-> srv, error |-> "ProgrammingError",
            message |-> CursorClosed, result |-> <<>>,
            sent |-> <<>>, recv |-> <<>>] }
    ELSE IF ~ c.executed
    THEN { [cursor |-> c, server |-> srv, error |-> "ProgrammingError",
            message |-> RequireExecute, result |-> <<>>,
            sent |-> <<>>, recv |-> <<>>] }
    ELSE LET size == IF size_given THEN size_argument ELSE c.arraysize
             taken == take_buffered(c, size)
         IN  IF taken.missing = 0
             THEN { [cursor |-> taken.cursor, server |-> srv, error |-> "",
                     message |-> <<>>, result |-> taken.result,
                     sent |-> <<>>, recv |-> <<>>] }
             ELSE { fetch_next(taken, srv, reply) :
                        reply \in FetchReplies(srv, taken.missing) }

\* Cursor.fetchmany: every way one call can end, over the server's answers
fetchmany(c, srv, size_given, size_argument) ==
    IF check_closed(c)
    THEN { [cursor |-> c, server |-> srv, error |-> "ProgrammingError",
            message |-> CursorClosed, result |-> <<>>,
            sent |-> <<>>, recv |-> <<>>] }
    ELSE IF ~ c.executed
    THEN { [cursor |-> c, server |-> srv, error |-> "ProgrammingError",
            message |-> RequireExecute, result |-> <<>>,
            sent |-> <<>>, recv |-> <<>>] }
    ELSE LET size == IF size_given THEN size_argument ELSE c.arraysize
             taken == take_buffered(c, size)
         IN  IF taken.missing = 0 \/ taken.cursor.received_last_resultset_part
             THEN { [cursor |-> taken.cursor, server |-> srv, error |-> "",
                     message |-> <<>>, result |-> taken.result,
                     sent |-> <<>>, recv |-> <<>>] }
             ELSE IF taken.cursor.resultset_id = 0
             THEN { [cursor |-> taken.cursor, server |-> srv,
                     error |-> "AttributeError", message |-> <<"_resultset_id">>,
                     result |-> <<>>, sent |-> <<>>, recv |-> <<>>] }
             ELSE { fetch_next(taken, srv, reply) :
                        reply \in FetchReplies(srv, taken.missing) }

\* Cursor.fetchmany called by the application
FetchMany(size_given, size) ==
    /\ pc = "idle"
    /\ \E r \in fetchmany(cursor, server, size_given, size) :
          Finish(r.cursor, r.server, Ended(r, r.result), r.sent, r.recv,
                 IF r.error = "" THEN delivered \o r.result ELSE delivered)
    /\ call' = [Call("fetchmany") EXCEPT !.size_given = size_given,
                                         !.size = size]
    /\ UNCHANGED binderVars

\* Cursor.fetchone: the row, or nothing for None
FetchOne ==
    /\ pc = "idle"
    /\ \E r \in fetchmany(cursor, server, TRUE, 1) :
          LET row == IF r.result # <<>> THEN <<r.result[1]>> ELSE <<>>
          IN  Finish(r.cursor, r.server, Ended(r, row), r.sent, r.recv,
                     IF r.error = "" THEN delivered \o row ELSE delivered)
    /\ call' = Call("fetchone")
    /\ UNCHANGED binderVars

\* a while loop of fetchall that only looks at the buffer
fetchall_continues_buffer_only(c) == c.buffer # <<>>

\* the condition of the while loop of fetchall
fetchall_continues(c) ==
    c.buffer # <<>> \/ ~ c.received_last_resultset_part

\* one fetchmany() of fetchall, then the test of the loop
FetchAllTurn(result, snt, rcv) ==
    \E r \in fetchmany(cursor, server, FALSE, 0) :
        IF r.error # ""
        THEN Finish(r.cursor, r.server, Raises(r.error, r.message),
                    snt \o r.sent, rcv \o r.recv, delivered)
        ELSE IF fetchall_continues(r.cursor)
        THEN Continue(r.cursor, r.server, "fetchall",
                      [NoFrame EXCEPT !.result = result \o r.result],
                      snt \o r.sent, rcv \o r.recv, delivered)
        ELSE Finish(r.cursor, r.server, Returned(result \o r.result),
                    snt \o r.sent, rcv \o r.recv,
                    delivered \o result \o r.result)

\* Cursor.fetchall up to the first test of its loop
FetchAll ==
    /\ pc = "idle"
    /\ FetchAllTurn(<<>>, <<>>, <<>>)
    /\ call' = Call("fetchall")
    /\ UNCHANGED binderVars

\* one turn of the while loop of fetchall
FetchAllStep ==
    /\ pc = "fetchall"
    /\ FetchAllTurn(frame.result, sent, recv)
    /\ UNCHANGED <<call, stmt, trail>>

\* the application assigns cursor.arraysize
SetArraySize(n) ==
    /\ pc = "idle"
    /\ cursor.arraysize # n
    /\ cursor' = [cursor EXCEPT !.arraysize = n]
    /\ UNCHANGED <<server, pc, frame, call, sent, recv, outcome, delivered,
                   stmt, trail>>

\* Cursor.close
Close ==
    /\ pc = "idle"
    /\ Finish([cursor EXCEPT !.connection = "None"], server, Returned(<<>>),
              <<>>, <<>>, delivered)
    /\ call' = Call("close")
    /\ UNCHANGED binderVars

\* the connection is closed under the cursor
ConnectionClosed ==
    /\ pc = "idle"
    /\ cursor.connection = "open"
    /\ cursor' = [cursor EXCEPT !.connection = "closed"]
    /\ UNCHANGED <<server, pc, frame, call, sent, recv, outcome, delivered,
                   stmt, trail>>

(***************************************************************************)
(* The binder driven directly through its public methods.  trail records   *)
(* the last two calls: the method, the row (for prepare_parameters the     *)
(* batch) it took or returned, and how a next() ended.                     *)
(***************************************************************************)
\* the rows a caller can hold after pulling them from the binder
BoundRows(ps) ==
    { ParamTuples(ps.params_metadata, r) :
        r \in { q \in ParamRows : Len(q) = Len(ps.params_metadata) } }

NoTrail ==
    [op |-> "", row |-> NoRow, kind |-> "", prev_op |-> "", prev_row |-> NoRow]

BinderPrepareParameters(batch) ==
    /\ stmt' = prepare_parameters(stmt, batch)
    /\ trail' = [op |-> "prepare_parameters", row |-> batch, kind |-> "",
                 prev_op |-> trail.op, prev_row |-> trail.row]
    /\ UNCHANGED cursorVars

BinderNext ==
    LET r == next(stmt)
    IN  /\ stmt' = r.ps
        /\ trail' = [op |-> "next", row |-> r.row, kind |-> r.kind,
                     prev_op |-> trail.op, prev_row |-> trail.row]
        /\ UNCHANGED cursorVars

BinderPushBack(row) ==
    /\ Len(stmt.pushed_row_params) < MaxPushed
    /\ stmt' = push_back(stmt, row)
    /\ trail' = [op |-> "push_back", row |-> row, kind |-> "",
                 prev_op |-> trail.op, prev_row |-> trail.row]
    /\ UNCHANGED cursorVars

(***************************************************************************)
(* Specifications.                                                         *)
(***************************************************************************)
InitCursor ==
    /\ cursor = NewCursor
    /\ server = [total |-> 0, position |-> 0]
    /\ pc = "idle"
    /\ frame = NoFrame
    /\ call = [op |-> "", statement |-> <<>>, parameters |-> <<>>,
               size_given |-> FALSE, size |-> 0, closed |-> FALSE]
    /\ sent = <<>>
    /\ recv = <<>>
    /\ outcome = Returned(<<>>)
    /\ delivered = <<>>

Init ==
    /\ InitCursor
    /\ stmt = PreparedStatement(1, ParamsMetadata(1), "None")
    /\ trail = NoTrail

\* the dispatcher: every call of the cursor, over data-modification statements
Next ==
    \/ \E statement \in Statements, parameters \in {<<>>} \cup ParamRows :
            Execute(statement, parameters, MaxRows)
    \/ \E statement \in Statements, parameters \in Batches :
            ExecuteMany(statement, parameters)
    \/ \E statement \in Statements : Prepare(statement)
    \/ PreparedStep(MaxRows)
    \/ FallbackStep(MaxRows)
    \/ \E size \in 0..1 : FetchMany(TRUE, size)
    \/ FetchMany(FALSE, 0)
    \/ FetchOne
    \/ FetchAll
    \/ Close
    \/ ConnectionClosed

Spec == Init /\ [][Next]_vars

\* the fetch engine: direct executes and fetches over larger result sets
NextFetch ==
    \/ Execute(<<"SELECT">>, <<>>, MaxRows)
    \/ \E size \in 0..MaxSize : FetchMany(TRUE, size)
    \/ FetchMany(FALSE, 0)
    \/ FetchOne
    \/ FetchAll
    \/ FetchAllStep
    \/ \E n \in 1..MaxSize : SetArraySize(n)

SpecFetch == Init /\ [][NextFetch]_vars

\* the same, the while loop of a running fetchall taking its next turn
SpecFetchFair == SpecFetch /\ WF_vars(FetchAllStep)

\* A server that cuts a result set of total rows into chunks of c rows and
\* sets the final-chunk bit on the chunk that carries the last row: what a
\* response with a result set part looks like then.
ChunkedResponse(response, c, total) ==
    /\ response.error = <<>>
    /\ response.parts # <<>>
    /\ LET part == response.parts[Len(response.parts)]
       IN  /\ part.kind = "RESULTSET"
           /\ part.rows # <<>>
           /\ Len(part.rows) = Min(c, total - part.rows[1] + 1)
           /\ part.attribute = 1 <=> part.rows[Len(part.rows)] = total

\* every response of the call came from such a server, its chunk size the
\* cursor's arraysize, and no response was refused by the cursor
ChunkedServer ==
    /\ server.total >= 1
    /\ outcome.error \in {"", "pending"}
    /\ \A i \in 1..Len(recv) :
          ChunkedResponse(recv[i], cursor.arraysize, server.total)

\* a select and fetchall against the server that cuts into chunks of
\* arraysize rows; arraysize is chosen before the first select
NextChunked ==
    \/ \E n \in 1..MaxSize : SetArraySize(n) /\ ~ cursor.executed
    \/ Execute(<<"SELECT">>, <<>>, MaxTotal) /\ ChunkedServer'
    \/ FetchAll /\ ChunkedServer'
    \/ FetchAllStep /\ ChunkedServer'

SpecChunked == Init /\ [][NextChunked]_vars

\* selects and data modifications on one cursor: a direct select, an
\* insert executed directly or as a prepared statement, and fetchmany
NextMixed ==
    \/ Execute(<<"SELECT">>, <<>>, MaxHeld)
    \/ \E parameters \in {<<>>, <<"a">>} :
            Execute(<<"INSERT", "?">>, parameters, MaxHeld)
    \/ PreparedStep(MaxHeld)
    \/ \E size \in 1..MaxSize : FetchMany(TRUE, size)

SpecMixed == Init /\ [][NextMixed]_vars

\* values the application can assign to arraysize
ArraySizes == {-1, 0, 1}

\* the fetch engine with any arraysize; a fetchall that keeps sending
\* requests is followed for MaxRows + 1 of them
NextArraySize ==
    \/ Execute(<<"SELECT">>, <<>>, MaxRows)
    \/ \E n \in ArraySizes : SetArraySize(n)
    \/ FetchMany(FALSE, 0)
    \/ FetchAll
    \/ Len(sent) <= MaxRows /\ FetchAllStep

SpecArraySize == Init /\ [][NextArraySize]_vars

\* the binder alone
InitBinder ==
    /\ InitCursor
    /\ stmt \in { PreparedStatement(1, ParamsMetadata(n), "None") : n \in 1..2 }
    /\ trail = NoTrail

NextBinder ==
    \/ \E batch \in Batches : BinderPrepareParameters(batch)
    \/ BinderNext
    \/ \E row \in BoundRows(stmt) : BinderPushBack(row)

SpecBinder == InitBinder /\ [][NextBinder]_vars

(***************************************************************************)
(* Properties.                                                             *)
(***************************************************************************)
Idle == pc = "idle"

\* the values of a bound row, in the order of its ParamTuples
RowValues(row) == [i \in 1..Len(row) |-> row[i].value]

\* the bound rows of the EXECUTE requests in requests, in the order sent
RECURSIVE RowsSent(_)
RowsSent(requests) ==
    IF requests = <<>> THEN <<>>
    ELSE (IF Head(requests).type = "EXECUTE"
          THEN [i \in 1..Len(Head(requests).parameters) |->
                    RowValues(Head(requests).parameters[i])]
          ELSE <<>>)
         \o RowsSent(Tail(requests))

IsPrefix(p, q) == Len(p) <= Len(q) /\ SubSeq(q, 1, Len(p)) = p

\* the call is an execute with parameters or an executemany on an open
\* cursor, so that its first request is the prepare
Batching ==
    /\ call.op \in {"execute", "executemany"}
    /\ call.parameters # <<>> \/ call.op = "executemany"
    /\ ~ call.closed
    /\ Len(recv) >= 1

\* C1: one fetchmany(size) with size >= 0 returns at most size rows and
\* sends at most one request, a FETCHNEXT.
C1_FetchManyBounded ==
    (call.op = "fetchmany" /\ call.size_given /\ call.size >= 0) =>
        /\ Idle
        /\ Len(outcome.value) <= call.size
        /\ Len(sent) <= 1
        /\ \A i \in 1..Len(sent) : sent[i].type = "FETCHNEXT"

\* a fetchmany that took rows from the buffer and asked the server for the rest
C1_Witness ==
    /\ call.op = "fetchmany" /\ call.size_given /\ call.size >= 2
    /\ Len(sent) = 1
    /\ sent[1].fetch_size >= 1
    /\ sent[1].fetch_size < call.size
    /\ Len(outcome.value) = call.size

OneRowEach ==
    \A i \in 2..Len(recv) :
        /\ recv[i].error = <<>>
        /\ recv[i].function_code \in DML
        /\ \E k \in 1..Len(recv[i].parts) : recv[i].parts[k].kind = "ROWSAFFECTED"
        /\ \A k \in 1..Len(recv[i].parts) :
              recv[i].parts[k].kind = "ROWSAFFECTED" =>
                  recv[i].parts[k].values
                      = [j \in 1..Len(sent[i].parameters) |-> 1]

\* the response to the prepare of the call carries what prepare asserts
PrepareAnswered ==
    /\ recv[1].error = <<>>
    /\ \E k \in 1..Len(recv[1].parts) : recv[1].parts[k].kind = "STATEMENTID"
    /\ \E k \in 1..Len(recv[1].parts) :
          recv[1].parts[k].kind = "PARAMETERMETADATA"

\* C3: after an executemany that prepared and ran to its end, N rows each
\* affecting one row, rowcount is N.
C3_RowCountIsTotal ==
    ( /\ Idle
      /\ Batching
      /\ outcome.error = ""
      /\ PrepareAnswered
      /\ Len(recv) >= 2
      /\ OneRowEach )
    => cursor.rowcount = Len(call.parameters)

\* the text of statement with the k-th "%s" replaced by the quoted k-th value
SubstitutedText(statement, row) ==
    [i \in 1..Len(statement) |->
        IF statement[i] = "%s"
        THEN LET k == Cardinality({ j \in 1..i : statement[j] = "%s" })
             IN  IF row[k] = "a" THEN "'a'" ELSE "'b'"
        ELSE statement[i]]

PrepareHitPercent == Batching /\ Contains(recv[1].error, PercentSignature)

\* C4 as claimed: the prepare failing with the percent-sign signature, the
\* call ends without error having sent, after the prepare, exactly one
\* direct execute per row, in row order, each with the row substituted.
C4_OneDirectExecutePerRow ==
    (Idle /\ PrepareHitPercent) =>
        /\ outcome.error = ""
        /\ Len(sent) = 1 + Len(call.parameters)
        /\ \A i \in 1..Len(call.parameters) :
              sent[i + 1] = DirectRequest(
                                SubstitutedText(call.statement, call.parameters[i]))

\* C4 as amended: the requests after the prepare are direct executes, one
\* per row and in row order, each with the row substituted, for the rows up
\* to the first one whose substitution or execution fails; a call that ends
\* without error has sent one for every row; the percent-sign error is never
\* the error of the call.
C4_Fallback ==
    PrepareHitPercent =>
        /\ sent[1] = PrepareRequest(call.statement)
        /\ Len(sent) <= 1 + Len(call.parameters)
        /\ \A i \in 2..Len(sent) :
              sent[i] = DirectRequest(
                            SubstitutedText(call.statement, call.parameters[i - 1]))
        /\ (Idle /\ outcome.error = "") => Len(sent) = 1 + Len(call.parameters)
        /\ Idle => outcome.message # recv[1].error
        /\ (Idle /\ outcome.error # "") =>
              \/ /\ outcome.error = "ProgrammingError"
                 /\ Len(sent) = Len(recv)
              \/ /\ outcome.error \in {"DatabaseError", "InterfaceError"}
                 /\ Len(sent) = Len(recv) /\ Len(sent) >= 2

\* a batch of two rows executed by substitution, row by row
C4_Witness ==
    /\ Idle
    /\ PrepareHitPercent
    /\ call.op = "executemany"
    /\ Len(call.parameters) = 2
    /\ call.parameters[1] # call.parameters[2]
    /\ Len(sent) = 3
    /\ outcome.error = ""

\* C5: the prepare failing with a server error that lacks the signature, the
\* call has ended with that error and the prepare is its only request.
C5_OtherPrepareErrorPropagates ==
    (Batching /\ recv[1].error # <<>>
              /\ ~ Contains(recv[1].error, PercentSignature)) =>
        /\ Idle
        /\ sent = <<PrepareRequest(call.statement)>>
        /\ outcome = Raises("DatabaseError", recv[1].error)

C5_Witness ==
    /\ Batching
    /\ call.op = "executemany"
    /\ Len(call.parameters) = 2
    /\ recv[1].error = OtherServerError
    /\ outcome.error = "DatabaseError"

\* the statement prepared and the batch holds a row whose length is not the
\* number of declared parameters
HasMisfit ==
    /\ Batching
    /\ PrepareAnswered
    /\ \E i \in 1..Len(call.parameters) :
          Len(call.parameters[i]) # CountToken(call.statement, "?")

FirstMisfit ==
    CHOOSE i \in 1..Len(call.parameters) :
        /\ Len(call.parameters[i]) # CountToken(call.statement, "?")
        /\ \A j \in 1..(i - 1) :
              Len(call.parameters[j]) = CountToken(call.statement, "?")

\* C6: in a prepared executemany whose batch holds a row of the wrong
\* length, the rows of the EXECUTE requests are rows before that row, in
\* order; the call ends with an error, the usage error unless a response
\* before the row was bound ended it.
C6_MisfitNeverSent ==
    HasMisfit =>
        /\ IsPrefix(RowsSent(sent), SubSeq(call.parameters, 1, FirstMisfit - 1))
        /\ Idle => outcome.error \in {"ProgrammingError", "DatabaseError",
                                      "InterfaceError"}
        /\ (Idle /\ outcome.error # "ProgrammingError") =>
              /\ Len(recv) = Len(sent)
              /\ Len(recv) >= 2

\* a batch whose second row has the wrong length: the usage error, and no
\* EXECUTE request at all
C6_Witness ==
    /\ Idle
    /\ HasMisfit
    /\ FirstMisfit = 2
    /\ outcome.error = "ProgrammingError"
    /\ Len(sent) = 1

\* C7: from a state in which the connection is missing or closed, every step
\* leaves it so; the step is a call that sends nothing and, unless it is
\* close, raises the usage error "Cursor closed".
C7_ClosedIsTerminal ==
    [][ cursor.connection # "open" =>
            /\ cursor'.connection # "open"
            /\ pc' = "idle"
            /\ sent' = <<>>
            /\ \/ call'.op = "close"
               \/ /\ call'.op \in {"execute", "executemany", "prepare",
                                   "fetchone", "fetchmany", "fetchall"}
                  /\ outcome' = Raises("ProgrammingError", CursorClosed) ]_vars

\* fetchall called on a cursor whose connection was closed under it
C7_Witness ==
    /\ cursor.connection = "closed"
    /\ call.op = "fetchall"
    /\ call.closed
    /\ outcome = Raises("ProgrammingError", CursorClosed)
    /\ cursor.executed

\* C8: an execute without parameters on an open cursor has ended having sent
\* one request, the direct execute of the statement text as given.
C8_NoParametersOneDirectExecute ==
    (call.op = "execute" /\ call.parameters = <<>> /\ ~ call.closed) =>
        /\ Idle
        /\ sent = <<DirectRequest(call.statement)>>

\* a statement with a parameter marker executed without parameters on a
\* cursor that holds a prepared statement
C8_Witness ==
    /\ call.op = "execute" /\ call.parameters = <<>> /\ ~ call.closed
    /\ call.statement = <<"INSERT", "?">>
    /\ DOMAIN cursor.prepared_statements # {}
    /\ outcome.error = ""

\* C9: the first step of execute(statement, row) is a first step of
\* executemany(statement, [row]) and the other way round: the same request,
\* the same response handled the same way, the same error and the same
\* cursor, from every state; the steps that follow are those of the one
\* loop both run.  (The connection changes only in the steps that close it.)
C9_ExecuteIsBatchOfOne ==
    [][ ( /\ pc = "idle"
          /\ Len(call'.parameters) = 1
          /\ cursor'.connection = cursor.connection )
        => /\ call'.op = "execute" =>
                 ExecuteManyCore(call'.statement, call'.parameters)
           /\ call'.op = "executemany" =>
                 ExecuteCore(call'.statement, call'.parameters[1], MaxRows) ]_vars

\* execute with a row that prepared and sent its EXECUTE request
C9_Witness ==
    /\ Idle
    /\ call.op = "execute"
    /\ call.parameters # <<>>
    /\ Len(sent) = 2
    /\ sent[2].type = "EXECUTE"
    /\ outcome.error = ""

\* C10: a next() that follows a push_back(row) returns that row.
C10_PushBackThenPull ==
    (trail.op = "next" /\ trail.prev_op = "push_back") =>
        /\ trail.kind = "row"
        /\ trail.row = trail.prev_row

CeilDiv(a, b) == (a + b - 1) \div b

\* C11: against a server that cuts a result set of T >= 1 rows into chunks
\* of c = arraysize rows, final-chunk bit on the chunk with the last row, the
\* fetchall that follows the select returns the T rows in order and sends
\* ceil(T / c) - 1 requests, each a FETCHNEXT.
C11_FetchAllRoundTrips ==
    ( /\ Idle
      /\ call.op = "fetchall"
      /\ outcome.error = ""
      /\ delivered = outcome.value )
    => /\ outcome.value = RowsFrom(1, server.total)
       /\ Len(sent) = CeilDiv(server.total, cursor.arraysize) - 1
       /\ \A i \in 1..Len(sent) : sent[i].type = "FETCHNEXT"

\* 7 rows in chunks of 3: fetchall returned them with 2 requests
C11_Witness ==
    /\ Idle
    /\ call.op = "fetchall"
    /\ server.total = 7
    /\ cursor.arraysize = 3
    /\ outcome.value = RowsFrom(1, 7)
    /\ Len(sent) = 2

\* on return from fetchall the buffer is empty and the last part received
FetchAllReturnsExhausted ==
    (Idle /\ call.op = "fetchall" /\ outcome.error = "") =>
        /\ cursor.buffer = <<>>
        /\ cursor.received_last_resultset_part

\* C12 as claimed: with arraysize >= 1 a fetchall in progress ends, it sends
\* at most ceil(T / arraysize) requests for a result set of T >= 1 rows, and
\* on return the buffer is empty and the last part received.
C12_BoundedByArraySize ==
    /\ (pc = "fetchall") ~> (pc = "idle")
    /\ []((call.op = "fetchall" /\ server.total >= 1) =>
              Len(sent) <= CeilDiv(server.total, cursor.arraysize))
    /\ []FetchAllReturnsExhausted

\* C12 as amended: with arraysize >= 1 a fetchall in progress ends, every
\* request but the last one brought at least one row, so that it sends at
\* most max(T, 1) requests, and on return the buffer is empty and the last
\* part received.
C12_FetchAllTerminates ==
    /\ (pc = "fetchall") ~> (pc = "idle")
    /\ [](call.op = "fetchall" =>
              /\ Len(sent) <= Max(server.total, 1)
              /\ \A i \in 1..(Len(recv) - 1) : recv[i].parts[2].rows # <<>>)
    /\ []FetchAllReturnsExhausted

\* a fetchall that needed more requests than ceil(T / arraysize): the server
\* sent less than was asked for
C12_Witness ==
    /\ Idle
    /\ call.op = "fetchall"
    /\ outcome.error = ""
    /\ server.total = MaxRows
    /\ cursor.arraysize = MaxRows
    /\ Len(sent) = MaxRows
    /\ outcome.value = RowsFrom(1, MaxRows)

\* the last response of an execute or executemany is a data-modification
\* response and its handling did not raise
AnsweredByDml ==
    /\ call.op \in {"execute", "executemany"}
    /\ recv # <<>>
    /\ recv[Len(recv)].error = <<>>
    /\ recv[Len(recv)].function_code \in DML
    /\ outcome.error \in {"", "pending"}

\* C13: after a data-modification response, to a direct or to a prepared
\* execute, rowcount is the affected-row count of the response and
\* description is absent.
C13_DmlSetsRowCountClearsDescription ==
    AnsweredByDml =>
        /\ cursor.description = "None"
        /\ \E k \in 1..Len(recv[Len(recv)].parts) :
              /\ recv[Len(recv)].parts[k].kind = "ROWSAFFECTED"
              /\ cursor.rowcount = recv[Len(recv)].parts[k].values[1]

\* C14: the fetchmany that follows an execute or executemany answered by a
\* data-modification or schema-definition response returns no rows, without
\* an error and without a request.
C14_ExecutedEmptyAfterDml ==
    [][ ( /\ pc = "idle"
          /\ cursor.connection = "open"
          /\ call.op \in {"execute", "executemany"}
          /\ outcome.error = ""
          /\ recv # <<>>
          /\ recv[Len(recv)].error = <<>>
          /\ recv[Len(recv)].function_code \in DML \cup {"DDL"}
          /\ call'.op = "fetchmany" )
        => /\ outcome' = Returned(<<>>)
           /\ sent' = <<>> ]_vars

FetchOps == {"fetchone", "fetchmany", "fetchall"}

\* the last part of the result set is received and the buffer is empty
Exhausted ==
    /\ cursor.executed
    /\ cursor.received_last_resultset_part
    /\ cursor.buffer = <<>>

\* C15: a step of a fetch call never resets the last-part flag, and a fetch
\* call made on an exhausted cursor returns nothing, sends nothing and
\* leaves the cursor as it is.
C15_ExhaustedStays ==
    [][ /\ (call'.op \in FetchOps /\ cursor.received_last_resultset_part)
            => cursor'.received_last_resultset_part
        /\ ( /\ pc = "idle"
             /\ Exhausted
             /\ call'.op \in FetchOps
             /\ cursor'.arraysize = cursor.arraysize )
            => /\ outcome' = Returned(<<>>)
               /\ sent' = <<>>
               /\ pc' = "idle"
               /\ cursor' = cursor ]_vars

\* fetchall called on a cursor whose rows were all handed out before
C15_Witness ==
    /\ Idle
    /\ Exhausted
    /\ server.total >= 2
    /\ delivered = RowsFrom(1, server.total)
    /\ call.op = "fetchall"
    /\ outcome = Returned(<<>>)
    /\ sent = <<>>

\* the statement prepared and the batch holds rows of the declared length
\* only, and at least one
ValidBatch ==
    /\ Batching
    /\ PrepareAnswered
    /\ call.parameters # <<>>
    /\ \A i \in 1..Len(call.parameters) :
          Len(call.parameters[i]) = CountToken(call.statement, "?")

\* C16: in a prepared executemany of valid rows the rows of the EXECUTE
\* requests are, in order, the first rows of the batch; every request holds
\* a row; the loop goes on while the binder has not reported end-of-data
\* and a call that ends without error has sent every row once, the binder
\* at end-of-data with no row pushed back.
C16_EachRowBoundOnce ==
    ValidBatch =>
        LET ps == get_prepared_statement(cursor, StatementIdOf(call.statement))
        IN  /\ IsPrefix(RowsSent(sent), call.parameters)
            /\ \A i \in 2..Len(sent) :
                  sent[i].type = "EXECUTE" /\ sent[i].parameters # <<>>
            /\ (Idle /\ outcome.error = "") =>
                  /\ RowsSent(sent) = call.parameters
                  /\ ps.end_of_data
                  /\ ps.pushed_row_params = <<>>
            /\ (pc = "prepared" /\ ps.end_of_data) =>
                  RowsSent(sent) = call.parameters

\* two different rows sent in two requests: the second was pulled for the
\* first request, did not fit and was pushed back
C16_Witness ==
    /\ Idle
    /\ ValidBatch
    /\ outcome.error = ""
    /\ Len(call.parameters) = 2
    /\ call.parameters[1] # call.parameters[2]
    /\ Len(sent) = 3
    /\ Len(sent[2].parameters) = 1
    /\ Len(sent[3].parameters) = 1

\* C17: a prepare whose response lacks the statement id or the parameter
\* metadata ends with the error kind of a protocol violation, the one of
\* "Invalid or unsupported function code received", and returns nothing.
C17_MissingPartIsProtocolViolation ==
    ( /\ Idle
      /\ call.op = "prepare"
      /\ ~ call.closed
      /\ recv # <<>>
      /\ recv[1].error = <<>>
      /\ ~ PrepareAnswered )
    => /\ outcome.error = "InterfaceError"
       /\ outcome.value = <<>>

\* C18: the next() that follows prepare_parameters(batch) returns the first
\* row of batch, reports the end for an empty batch and raises the usage
\* error for a first row of the wrong length.
C18_FreshPullSequence ==
    (trail.op = "next" /\ trail.prev_op = "prepare_parameters") =>
        IF trail.prev_row = <<>>
        THEN trail.kind = "StopIteration"
        ELSE IF Len(trail.prev_row[1]) = Len(stmt.params_metadata)
        THEN trail.kind = "row" /\ RowValues(trail.row) = trail.prev_row[1]
        ELSE trail.kind = "ProgrammingError"

\* what the application can observe of the cursor's result
Observable(c) ==
    <<c.buffer, c.description, c.rowcount, c.executed,
      c.received_last_resultset_part, c.resultset_id>>

\* C19: when the handling of the response to the first execute request of a
\* call (nothing but the prepare was sent before it) raises a protocol
\* violation, the observable state of the cursor is the one before the step,
\* which is the one before the call.
C19_FailedExecuteLeavesState ==
    [][ ( /\ call'.op \in {"execute", "executemany"}
          /\ pc' = "idle"
          /\ outcome'.error = "InterfaceError"
          /\ Len(sent') = Len(sent) + 1
          /\ pc = "idle" \/ Len(sent) = 1 )
        => Observable(cursor') = Observable(cursor) ]_vars

\* the turn of fetchall's loop that comes next asks the server nothing,
\* takes no row and leaves the loop's condition true: so does every later one
FetchAllSpins ==
    /\ pc = "fetchall"
    /\ \A r \in fetchmany(cursor, server, FALSE, 0) :
          /\ r.error = ""
          /\ r.cursor = cursor
          /\ r.server = server
          /\ r.result = <<>>
          /\ r.sent = <<>>
          /\ fetchall_continues(r.cursor)

\* C20: whatever arraysize is, a fetchall on a cursor with rows in the
\* buffer does not loop without end and sends no FETCHNEXT with a fetch size
\* below 1.
C20_AnyArraySizeTerminates ==
    (call.op = "fetchall" /\ cursor.buffer # <<>>) =>
        /\ ~ FetchAllSpins
        /\ \A i \in 1..Len(sent) : sent[i].fetch_size >= 1

====
